---- MODULE Spec2Model ----
(***************************************************************************)
(* SingleLinkedList<Type> of single-linked-list.h as a state machine over  *)
(* an explicit heap of nodes.  A position (what an iterator holds in       *)
(* node_) is NULL, the address of a heap node, or the sentinel head_ of a  *)
(* list.  List objects live in slots; the two extra slots hold the local   *)
(* objects 'result' (CopyAndSwap) and 'copy_rhs' (operator=).              *)
(***************************************************************************)
EXTENDS Integers, Sequences, FiniteSets, TLC

\* ---- bounds of the model ----
\* list objects of the program
NumLists == 2
\* nodes the heap can hold
MaxNodes == 5
\* nodes in use after an operation of Spec; MaxBuilt nodes are in use when
\* SpecFail starts
MaxLive == 2
MaxBuilt == 3
\* element values are 1..MaxVal; initializer lists have up to MaxLen elements
MaxVal == 2
MaxLen == 2
\* width of size_t
SizeBits == 8

\* ---- the program's constants and domains ----
NULL == 0
Lists == 1..NumLists
Result == NumLists + 1
CopyRhs == NumLists + 2
Slots == 1..(NumLists + 2)
Addr == 1..MaxNodes
Values == 1..MaxVal
SizeMod == 2 ^ SizeBits

VARIABLES
    checked,   \* TRUE: assert() is compiled in; FALSE: NDEBUG build
    live,      \* live[l]: the list object in slot l is constructed
    head,      \* head[l]: head_.next_node of list l
    size,      \* size[l]: size_ of list l
    alloc,     \* the set of node addresses allocated and not yet deleted
    value,     \* value[a]: Node::value of the node at address a
    next,      \* next[a]: Node::next_node of the node at address a
    fault,     \* "none", or how the program ended: "assert" or "segv"
    last,      \* the last operation, its arguments and the state before it
    ret,       \* the position held by the iterator the last operation returned
    rel        \* outcomes of the relational operators of the last comparison

vars == <<checked, live, head, size, alloc, value, next, fault, last, ret, rel>>

\* ---- sequences of values an initializer list can hold ----
SeqsUpTo(n) == UNION {[1..k -> Values] : k \in 0..n}

\* ---- the memory the member functions act on, as one record ----
Cur == [head |-> head, size |-> size, alloc |-> alloc, value |-> value,
        next |-> next, fault |-> "none", exc |-> FALSE, ret |-> NULL,
        budget |-> 0 - 1]

\* the same memory when operator new is to throw std::bad_alloc at its
\* (n + 1)-th call from now on
FailingAfter(n) == [Cur EXCEPT !.budget = n]

\* the memory before anything has been allocated
Fresh == [head |-> [l \in Slots |-> NULL], size |-> [l \in Slots |-> 0],
          alloc |-> {}, value |-> [a \in Addr |-> 0],
          next |-> [a \in Addr |-> NULL], fault |-> "none", exc |-> FALSE,
          ret |-> NULL, budget |-> 0 - 1]

\* size_t arithmetic
Inc(s) == (s + 1) % SizeMod
Dec(s) == (s - 1) % SizeMod

\* &head_ of list l as a position
Sentinel(l) == 0 - l

\* p->next_node for a position p that is a node or a sentinel
NodeNext(m, p) == IF p < 0 THEN m.head[0 - p] ELSE m.next[p]

\* p->next_node = q
SetNext(m, p, q) ==
    IF p < 0 THEN [m EXCEPT !.head[0 - p] = q] ELSE [m EXCEPT !.next[p] = q]

\* what a read through a null pointer does: operator*/operator++ of an
\* iterator assert in a checked build; everywhere else the read traps
NullDeref(m) == [m EXCEPT !.fault = "segv"]
AssertFail(m) == [m EXCEPT !.fault = IF checked THEN "assert" ELSE "segv"]

\* new Node(v, nx): the lowest free address; std::bad_alloc when none is
\* free or when the allocator has been set to fail (budget used up)
HeapFull(m) == Addr \ m.alloc = {}
NewAddr(m) == CHOOSE a \in Addr \ m.alloc : \A b \in Addr \ m.alloc : a <= b
NewNode(m, v, nx) ==
    IF HeapFull(m) \/ m.budget = 0 THEN [m EXCEPT !.exc = TRUE]
    ELSE LET a == NewAddr(m)
         IN [m EXCEPT !.alloc = @ \cup {a}, !.value[a] = v, !.next[a] = nx,
                      !.ret = a,
                      !.budget = IF @ > 0 THEN @ - 1 ELSE @]

\* delete p
DeleteNode(m, p) ==
    [m EXCEPT !.alloc = @ \ {p}, !.value[p] = 0, !.next[p] = NULL]

\* ---- iteration ----
begin(m, l) == m.head[l]
end == NULL
before_begin(l) == Sentinel(l)

\* the nodes met from position p on, following next_node until it is absent
RECURSIVE ChainFrom(_, _, _)
ChainFrom(m, p, fuel) ==
    IF p = NULL \/ fuel = 0 THEN <<>>
    ELSE <<p>> \o ChainFrom(m, m.next[p], fuel - 1)

Chain(m, l) == ChainFrom(m, begin(m, l), MaxNodes + 1)

\* the values read by for (it = begin(); it != end(); ++it) *it
Elements(m, l) == [i \in 1..Len(Chain(m, l)) |-> m.value[Chain(m, l)[i]]]

GetSize(m, l) == m.size[l]
IsEmpty(m, l) == IF m.size[l] = 0 THEN TRUE ELSE FALSE

\* BasicIterator::operator++ on an iterator holding pos
IterInc(m, pos) ==
    IF pos = NULL THEN AssertFail(m) ELSE [m EXCEPT !.ret = NodeNext(m, pos)]

\* BasicIterator::operator* and operator-> on an iterator holding pos: the
\* fault, or the values the read of node_->value can give.  head_.value of
\* the sentinel is never initialised, so its read gives any value.
IterDeref(m, pos) == IF pos = NULL THEN AssertFail(m) ELSE m
DerefValues(m, pos) ==
    IF pos = NULL THEN {0} ELSE IF pos < 0 THEN Values ELSE {m.value[pos]}

\* ---- member functions, each from the memory before to the memory after ----

\* InsertAfter as it would be if it put the new value into the node at pos
\* and moved that node's value into the new node
InsertAfterM_Shifts(m, l, pos, v) ==
    IF pos = NULL THEN AssertFail(m)
    ELSE LET m1 == NewNode(m, IF pos > 0 THEN m.value[pos] ELSE v,
                           NodeNext(m, pos))
             m2 == [SetNext(m1, pos, m1.ret) EXCEPT !.size[l] = Inc(@)]
         IN IF m1.exc THEN m1
            ELSE IF pos > 0 THEN [m2 EXCEPT !.value[pos] = v] ELSE m2

\* Iterator InsertAfter(ConstIterator pos, const Type& value), called on list l
InsertAfterM(m, l, pos, v) ==
    IF pos = NULL THEN AssertFail(m)
    ELSE LET m1 == NewNode(m, v, NodeNext(m, pos))
         IN IF m1.exc THEN m1
            ELSE [SetNext(m1, pos, m1.ret) EXCEPT !.size[l] = Inc(@)]

\* EraseAfter as it would be with --size_ left out
EraseAfterM_KeepsSize(m, l, pos) ==
    IF pos = NULL THEN AssertFail(m)
    ELSE LET to_delete == NodeNext(m, pos)
         IN IF to_delete = NULL THEN NullDeref(m)
            ELSE LET next_node == m.next[to_delete]
                     m1 == DeleteNode(m, to_delete)
                     m3 == SetNext(m1, pos, next_node)
                 IN [m3 EXCEPT !.ret = NodeNext(m3, pos)]

\* Iterator EraseAfter(ConstIterator pos) noexcept, called on list l
EraseAfterM(m, l, pos) ==
    IF pos = NULL THEN AssertFail(m)
    ELSE LET to_delete == NodeNext(m, pos)
         IN IF to_delete = NULL THEN NullDeref(m)
            ELSE LET next_node == m.next[to_delete]
                     m1 == DeleteNode(m, to_delete)
                     m2 == [m1 EXCEPT !.size[l] = Dec(@)]
                     m3 == SetNext(m2, pos, next_node)
                 IN [m3 EXCEPT !.ret = NodeNext(m3, pos)]

\* swap as it would be if it exchanged the head links only
swapM_KeepsSize(m, l, other) ==
    [m EXCEPT !.head[l] = m.head[other], !.head[other] = m.head[l]]

\* void swap(SingleLinkedList& other) noexcept
swapM(m, l, other) ==
    [m EXCEPT !.head[l] = m.head[other], !.head[other] = m.head[l],
              !.size[l] = m.size[other], !.size[other] = m.size[l]]

\* PushFront as it would be with ++size_ left out
PushFrontM_KeepsSize(m, l, v) ==
    LET m1 == NewNode(m, v, m.head[l])
    IN IF m1.exc THEN m1
       ELSE [m1 EXCEPT !.head[l] = m1.ret, !.ret = NULL]

\* void PushFront(const Type& value)
PushFrontM(m, l, v) ==
    LET m1 == NewNode(m, v, m.head[l])
    IN IF m1.exc THEN m1
       ELSE [m1 EXCEPT !.head[l] = m1.ret, !.size[l] = Inc(@), !.ret = NULL]

\* void PopFront() noexcept
PopFrontM(m, l) ==
    IF m.size[l] # 0
    THEN IF m.head[l] = NULL THEN NullDeref(m)
         ELSE LET next_node == m.next[m.head[l]]
                  m1 == DeleteNode(m, m.head[l])
              IN [m1 EXCEPT !.size[l] = Dec(@), !.head[l] = next_node]
    ELSE m

\* Clear as it would be if it freed the first node and left head_.next_node
\* pointing at it
ClearM_KeepsLink(m, l) ==
    IF m.head[l] # NULL
    THEN [DeleteNode(m, m.head[l]) EXCEPT !.head[l] = m.head[l], !.size[l] = 0]
    ELSE m

\* void Clear() noexcept
RECURSIVE ClearM(_, _)
ClearM(m, l) ==
    IF m.head[l] # NULL
    THEN LET next_node == m.next[m.head[l]]
             m1 == DeleteNode(m, m.head[l])
         IN ClearM([m1 EXCEPT !.head[l] = next_node, !.size[l] = Dec(@)], l)
    ELSE m

\* ~SingleLinkedList(): Clear(), after which the object's storage is gone
\* (the slot is left with no link and a zero counter)
DestructorM(m, l) == [ClearM(m, l) EXCEPT !.head[l] = NULL, !.size[l] = 0]

\* ---- the container CopyAndSwap reads: an initializer list or a list ----
IList(S) == [kind |-> "ilist", vals |-> S, id |-> 0]
ListRef(o) == [kind |-> "list", vals |-> <<>>, id |-> o]

\* elements.begin(), elements.end(), *it and ++it of that container
CBegin(m, c) == IF c.kind = "ilist" THEN 1 ELSE begin(m, c.id)
CEnd(c) == IF c.kind = "ilist" THEN Len(c.vals) + 1 ELSE end
CDeref(m, c, it) == IF c.kind = "ilist" THEN c.vals[it] ELSE m.value[it]
CNext(m, c, it) == IF c.kind = "ilist" THEN it + 1 ELSE m.next[it]

\* the for loop of CopyAndSwap: insert_after_it is the running position
RECURSIVE CopyLoop(_, _, _, _)
CopyLoop(m, c, insert_after_it, it) ==
    IF it = CEnd(c) THEN m
    ELSE LET m1 == InsertAfterM(m, Result, insert_after_it, CDeref(m, c, it))
         IN IF m1.exc \/ m1.fault # "none" THEN m1
            ELSE CopyLoop(m1, c, NodeNext(m1, insert_after_it), CNext(m1, c, it))

\* CopyAndSwap as it would be if copying a list took over the source's nodes
\* instead of allocating new ones
CopyAndSwapM_Shares(m, this, c) ==
    IF c.kind = "list"
    THEN [m EXCEPT !.head[this] = m.head[c.id], !.size[this] = m.size[c.id]]
    ELSE LET m0 == [m EXCEPT !.head[Result] = NULL, !.size[Result] = 0]
             m1 == CopyLoop(m0, c, before_begin(this), CBegin(m0, c))
         IN IF m1.fault # "none" THEN m1
            ELSE IF m1.exc THEN DestructorM(m1, Result)
            ELSE DestructorM(swapM(m1, this, Result), Result)

\* void CopyAndSwap(Container& elements), called on list this
CopyAndSwapM(m, this, c) ==
    LET m0 == [m EXCEPT !.head[Result] = NULL, !.size[Result] = 0]
        m1 == CopyLoop(m0, c, before_begin(this), CBegin(m0, c))
    IN IF m1.fault # "none" THEN m1
       ELSE IF m1.exc THEN DestructorM(m1, Result)
       ELSE DestructorM(swapM(m1, this, Result), Result)

\* SingleLinkedList(std::initializer_list<Type> values) and
\* SingleLinkedList(const SingleLinkedList& other), constructing slot this.
\* When CopyAndSwap throws, no object exists afterwards and its destructor
\* is not run.
ConstructM(m, this, c) ==
    LET m0 == [m EXCEPT !.head[this] = NULL, !.size[this] = 0]
        m1 == CopyAndSwapM(m0, this, c)
    IN IF m1.exc THEN [m1 EXCEPT !.head[this] = NULL, !.size[this] = 0]
       ELSE m1

\* operator= as it would be without the test this != &rhs
AssignM_AlwaysCopies(m, this, rhs) ==
    LET m1 == ConstructM(m, CopyRhs, ListRef(rhs))
    IN IF m1.exc \/ m1.fault # "none" THEN m1
       ELSE DestructorM(swapM(m1, this, CopyRhs), CopyRhs)

\* operator= as it would be if it emptied *this before making the copy
AssignM_ClearsFirst(m, this, rhs) ==
    IF this # rhs
    THEN LET m1 == ConstructM(ClearM(m, this), CopyRhs, ListRef(rhs))
         IN IF m1.exc \/ m1.fault # "none" THEN m1
            ELSE DestructorM(swapM(m1, this, CopyRhs), CopyRhs)
    ELSE m

\* SingleLinkedList& operator=(const SingleLinkedList& rhs)
AssignM(m, this, rhs) ==
    IF this # rhs
    THEN LET m1 == ConstructM(m, CopyRhs, ListRef(rhs))
         IN IF m1.exc \/ m1.fault # "none" THEN m1
            ELSE DestructorM(swapM(m1, this, CopyRhs), CopyRhs)
    ELSE m

\* ---- relational operators: "true", "false", or the fault that ends them ----
DerefNull == IF checked THEN "assert" ELSE "segv"
Faults == {"assert", "segv"}
Not(o) == IF o = "true" THEN "false" ELSE IF o = "false" THEN "true" ELSE o
Bool(b) == IF b THEN "true" ELSE "false"

\* std::equal(first1, last1, first2)
RECURSIVE StdEqual(_, _, _, _)
StdEqual(m, first1, last1, first2) ==
    IF first1 = last1 THEN "true"
    ELSE IF first2 = NULL THEN DerefNull
    ELSE IF m.value[first1] # m.value[first2] THEN "false"
    ELSE StdEqual(m, m.next[first1], last1, m.next[first2])

\* std::lexicographical_compare as it would be if running out of either
\* range meant "not less"
RECURSIVE StdLexicographicalCompare_NoPrefix(_, _, _, _, _)
StdLexicographicalCompare_NoPrefix(m, first1, last1, first2, last2) ==
    IF first1 = last1 \/ first2 = last2 THEN "false"
    ELSE IF m.value[first1] < m.value[first2] THEN "true"
    ELSE IF m.value[first2] < m.value[first1] THEN "false"
    ELSE StdLexicographicalCompare_NoPrefix(m, m.next[first1], last1,
                                            m.next[first2], last2)

\* std::lexicographical_compare(first1, last1, first2, last2)
RECURSIVE StdLexicographicalCompare(_, _, _, _, _)
StdLexicographicalCompare(m, first1, last1, first2, last2) ==
    IF first1 = last1 \/ first2 = last2
    THEN Bool(first1 = last1 /\ first2 # last2)
    ELSE IF m.value[first1] < m.value[first2] THEN "true"
    ELSE IF m.value[first2] < m.value[first1] THEN "false"
    ELSE StdLexicographicalCompare(m, m.next[first1], last1,
                                   m.next[first2], last2)

OpEq(m, lhs, rhs) == StdEqual(m, begin(m, lhs), end, begin(m, rhs))
OpNe(m, lhs, rhs) == Not(OpEq(m, lhs, rhs))
OpLt(m, lhs, rhs) ==
    StdLexicographicalCompare(m, begin(m, lhs), end, begin(m, rhs), end)
OpGt(m, lhs, rhs) ==
    StdLexicographicalCompare(m, begin(m, rhs), end, begin(m, lhs), end)
OpLe(m, lhs, rhs) == Not(OpGt(m, lhs, rhs))
OpGe(m, lhs, rhs) == Not(OpLt(m, lhs, rhs))

\* ---- the state machine ----

\* what the last operation records of the state it started from
Pre == [head |-> head, size |-> size, alloc |-> alloc, value |-> value,
        next |-> next, live |-> live]

Op(name, l, r, pos, v, vals, m) ==
    [op |-> name, l |-> l, r |-> r, pos |-> pos, v |-> v, vals |-> vals,
     out |-> IF m.fault # "none" THEN m.fault
             ELSE IF m.exc THEN "bad_alloc" ELSE "ok",
     pre |-> Pre]

NoRel == [lhs |-> 0, rhs |-> 0, eq |-> "none", ne |-> "none", lt |-> "none",
          le |-> "none", gt |-> "none", ge |-> "none"]

\* the memory after an operation becomes the state
Commit(m) ==
    /\ head' = m.head
    /\ size' = m.size
    /\ alloc' = m.alloc
    /\ value' = m.value
    /\ next' = m.next
    /\ fault' = m.fault

Running == fault = "none"

\* no allocation of the operation failed, and it leaves at most MaxLive nodes
\* in use
Fits(m) == ~m.exc /\ Cardinality(m.alloc) <= MaxLive

\* the positions of list l a caller can hold: before_begin(), each node, end()
Positions(l) ==
    {before_begin(l), end} \cup {Chain(Cur, l)[i] : i \in 1..Len(Chain(Cur, l))}

Init ==
    /\ checked \in BOOLEAN
    /\ live = [l \in Lists |-> TRUE]
    /\ head = [l \in Slots |-> NULL]
    /\ size = [l \in Slots |-> 0]
    /\ alloc = {}
    /\ value = [a \in Addr |-> 0]
    /\ next = [a \in Addr |-> NULL]
    /\ fault = "none"
    /\ last = Op("init", 0, 0, NULL, 0, <<>>, Cur)
    /\ ret = NULL
    /\ rel = NoRel

\* the memory after list.PushFront(S[n]), ..., list.PushFront(S[1]) on list l,
\* which leaves l holding S
RECURSIVE PushAll(_, _, _)
PushAll(m, l, S) ==
    IF S = <<>> THEN m
    ELSE PushAll(PushFrontM(m, l, S[Len(S)]), l, SubSeq(S, 1, Len(S) - 1))

\* the state after the first two lists have been default-constructed and
\* filled by PushFront with at most k elements in all
Built(k) ==
    /\ checked \in BOOLEAN
    /\ live = [l \in Lists |-> TRUE]
    /\ fault = "none"
    /\ ret = NULL
    /\ rel = NoRel
    /\ \E S1 \in SeqsUpTo(k), S2 \in SeqsUpTo(k) :
          /\ Len(S1) + Len(S2) <= k
          /\ \E m \in {PushAll(PushAll(Fresh, 1, S1), 2, S2)} :
                /\ head = m.head
                /\ size = m.size
                /\ alloc = m.alloc
                /\ value = m.value
                /\ next = m.next
                /\ last = [op |-> "init", l |-> 0, r |-> 0, pos |-> NULL,
                           v |-> 0, vals |-> <<>>, out |-> "ok",
                           pre |-> [head |-> m.head, size |-> m.size,
                                    alloc |-> m.alloc, value |-> m.value,
                                    next |-> m.next,
                                    live |-> [l \in Lists |-> TRUE]]]

\* SingleLinkedList() in slot l
DefaultConstruct(l) ==
    /\ Running /\ ~live[l]
    /\ Commit([Cur EXCEPT !.head[l] = NULL, !.size[l] = 0])
    /\ live' = [live EXCEPT ![l] = TRUE]
    /\ last' = Op("default", l, 0, NULL, 0, <<>>, Cur)
    /\ ret' = NULL /\ rel' = NoRel
    /\ UNCHANGED checked

\* SingleLinkedList(std::initializer_list<Type> values) in slot l
InitListConstruct(l, S) ==
    /\ Running /\ ~live[l]
    /\ \E m \in {ConstructM(Cur, l, IList(S))} :
          /\ Fits(m)
          /\ Commit(m)
          /\ live' = [live EXCEPT ![l] = TRUE]
          /\ last' = Op("ilist", l, 0, NULL, 0, S, m)
    /\ ret' = NULL /\ rel' = NoRel
    /\ UNCHANGED checked

\* SingleLinkedList(const SingleLinkedList& other) in slot l
CopyConstruct(l, other) ==
    /\ Running /\ ~live[l] /\ live[other]
    /\ \E m \in {ConstructM(Cur, l, ListRef(other))} :
          /\ Fits(m)
          /\ Commit(m)
          /\ live' = [live EXCEPT ![l] = TRUE]
          /\ last' = Op("copy", l, other, NULL, 0, <<>>, m)
    /\ ret' = NULL /\ rel' = NoRel
    /\ UNCHANGED checked

\* l = rhs
CopyAssign(l, rhs) ==
    /\ Running /\ live[l] /\ live[rhs]
    /\ \E m \in {AssignM(Cur, l, rhs)} :
          Fits(m) /\ Commit(m) /\ last' = Op("assign", l, rhs, NULL, 0, <<>>, m)
    /\ ret' = NULL /\ rel' = NoRel
    /\ UNCHANGED <<checked, live>>

\* l.swap(other), and swap(l, other) which calls it
Swap(l, other) ==
    /\ Running /\ live[l] /\ live[other]
    /\ \E m \in {swapM(Cur, l, other)} :
          Commit(m) /\ last' = Op("swap", l, other, NULL, 0, <<>>, m)
    /\ ret' = NULL /\ rel' = NoRel
    /\ UNCHANGED <<checked, live>>

PushFront(l, v) ==
    /\ Running /\ live[l]
    /\ \E m \in {PushFrontM(Cur, l, v)} :
          Fits(m) /\ Commit(m) /\ last' = Op("PushFront", l, 0, NULL, v, <<>>, m)
    /\ ret' = NULL /\ rel' = NoRel
    /\ UNCHANGED <<checked, live>>

PopFront(l) ==
    /\ Running /\ live[l]
    /\ \E m \in {PopFrontM(Cur, l)} :
          Commit(m) /\ last' = Op("PopFront", l, 0, NULL, 0, <<>>, m)
    /\ ret' = NULL /\ rel' = NoRel
    /\ UNCHANGED <<checked, live>>

InsertAfter(l, pos, v) ==
    /\ Running /\ live[l] /\ pos \in Positions(l)
    /\ \E m \in {InsertAfterM(Cur, l, pos, v)} :
          /\ Fits(m)
          /\ Commit(m)
          /\ last' = Op("InsertAfter", l, 0, pos, v, <<>>, m)
          /\ ret' = m.ret
    /\ rel' = NoRel
    /\ UNCHANGED <<checked, live>>

EraseAfter(l, pos) ==
    /\ Running /\ live[l] /\ pos \in Positions(l)
    /\ \E m \in {EraseAfterM(Cur, l, pos)} :
          /\ Commit(m)
          /\ last' = Op("EraseAfter", l, 0, pos, 0, <<>>, m)
          /\ ret' = m.ret
    /\ rel' = NoRel
    /\ UNCHANGED <<checked, live>>

Clear(l) ==
    /\ Running /\ live[l]
    /\ \E m \in {ClearM(Cur, l)} :
          Commit(m) /\ last' = Op("Clear", l, 0, NULL, 0, <<>>, m)
    /\ ret' = NULL /\ rel' = NoRel
    /\ UNCHANGED <<checked, live>>

\* the list in slot l goes out of scope
Destroy(l) ==
    /\ Running /\ live[l]
    /\ \E m \in {DestructorM(Cur, l)} :
          Commit(m) /\ last' = Op("destroy", l, 0, NULL, 0, <<>>, m)
    /\ live' = [live EXCEPT ![l] = FALSE]
    /\ ret' = NULL /\ rel' = NoRel
    /\ UNCHANGED checked

\* lhs == rhs, !=, <, <=, >, >= evaluated on two lists; a faulting
\* evaluation ends the program
Compare(lhs, rhs) ==
    /\ Running /\ live[lhs] /\ live[rhs]
    /\ rel' = [lhs |-> lhs, rhs |-> rhs,
               eq |-> OpEq(Cur, lhs, rhs), ne |-> OpNe(Cur, lhs, rhs),
               lt |-> OpLt(Cur, lhs, rhs), le |-> OpLe(Cur, lhs, rhs),
               gt |-> OpGt(Cur, lhs, rhs), ge |-> OpGe(Cur, lhs, rhs)]
    /\ fault' = IF OpEq(Cur, lhs, rhs) \in Faults THEN OpEq(Cur, lhs, rhs)
                ELSE "none"
    /\ last' = Op("compare", lhs, rhs, NULL, 0, <<>>,
                  [Cur EXCEPT !.fault = IF OpEq(Cur, lhs, rhs) \in Faults
                                        THEN OpEq(Cur, lhs, rhs) ELSE "none"])
    /\ ret' = NULL
    /\ UNCHANGED <<checked, live, head, size, alloc, value, next>>

\* *it and it-> on an iterator of list l holding pos
Deref(l, pos) ==
    /\ Running /\ live[l] /\ pos \in Positions(l)
    /\ \E m \in {IterDeref(Cur, pos)} :
          /\ Commit(m)
          /\ \E v \in DerefValues(Cur, pos) :
                 last' = Op("deref", l, 0, pos, v, <<>>, m)
    /\ ret' = pos /\ rel' = NoRel
    /\ UNCHANGED <<checked, live>>

\* ++it on an iterator of list l holding pos
Advance(l, pos) ==
    /\ Running /\ live[l] /\ pos \in Positions(l)
    /\ \E m \in {IterInc(Cur, pos)} :
          /\ Commit(m)
          /\ last' = Op("advance", l, 0, pos, 0, <<>>, m)
          /\ ret' = m.ret
    /\ rel' = NoRel
    /\ UNCHANGED <<checked, live>>

\* ---- the same operations when operator new throws std::bad_alloc ----

\* std::bad_alloc leaves the operation and nothing catches it: the program
\* ends there, with the memory as the exception left it
Uncaught(m) == [m EXCEPT !.fault = "bad_alloc"]

\* SingleLinkedList(std::initializer_list<Type> values) in slot l, throwing
InitListConstructThrows(l, S, n) ==
    /\ Running /\ ~live[l]
    /\ \E m \in {ConstructM(FailingAfter(n), l, IList(S))} :
           /\ m.exc
           /\ Commit(Uncaught(m))
           /\ last' = Op("ilist", l, 0, NULL, 0, S, m)
    /\ ret' = NULL /\ rel' = NoRel
    /\ UNCHANGED <<checked, live>>

\* SingleLinkedList(const SingleLinkedList& other) in slot l, throwing
CopyConstructThrows(l, other, n) ==
    /\ Running /\ ~live[l] /\ live[other]
    /\ \E m \in {ConstructM(FailingAfter(n), l, ListRef(other))} :
           /\ m.exc
           /\ Commit(Uncaught(m))
           /\ last' = Op("copy", l, other, NULL, 0, <<>>, m)
    /\ ret' = NULL /\ rel' = NoRel
    /\ UNCHANGED <<checked, live>>

\* l = rhs, throwing
CopyAssignThrows(l, rhs, n) ==
    /\ Running /\ live[l] /\ live[rhs]
    /\ \E m \in {AssignM(FailingAfter(n), l, rhs)} :
           /\ m.exc
           /\ Commit(Uncaught(m))
           /\ last' = Op("assign", l, rhs, NULL, 0, <<>>, m)
    /\ ret' = NULL /\ rel' = NoRel
    /\ UNCHANGED <<checked, live>>

\* ~SingleLinkedList() of the list in slot l while the exception unwinds
\* the scopes of the caller
Unwind(l) ==
    /\ fault = "bad_alloc" /\ live[l]
    /\ \E m \in {DestructorM(Cur, l)} :
          Commit(Uncaught(m)) /\ last' = Op("unwind", l, 0, NULL, 0, <<>>, m)
    /\ live' = [live EXCEPT ![l] = FALSE]
    /\ ret' = NULL /\ rel' = NoRel
    /\ UNCHANGED checked

Next ==
    \/ \E l \in Lists : DefaultConstruct(l)
    \/ \E l \in Lists, S \in SeqsUpTo(MaxLen) : InitListConstruct(l, S)
    \/ \E l \in Lists, other \in Lists : CopyConstruct(l, other)
    \/ \E l \in Lists, rhs \in Lists : CopyAssign(l, rhs)
    \/ \E l \in Lists, other \in Lists : Swap(l, other)
    \/ \E l \in Lists, v \in Values : PushFront(l, v)
    \/ \E l \in Lists : PopFront(l)
    \/ \E l \in Lists : \E pos \in Positions(l), v \in Values : InsertAfter(l, pos, v)
    \/ \E l \in Lists : \E pos \in Positions(l) : EraseAfter(l, pos)
    \/ \E l \in Lists : Clear(l)
    \/ \E l \in Lists : Destroy(l)
    \/ \E lhs \in Lists, rhs \in Lists : Compare(lhs, rhs)
    \/ \E l \in Lists : \E pos \in Positions(l) : Deref(l, pos)
    \/ \E l \in Lists : \E pos \in Positions(l) : Advance(l, pos)

Spec == Init /\ [][Next]_vars

\* the program when allocations may fail
NextFail ==
    \/ Next
    \/ \E l \in Lists, S \in SeqsUpTo(MaxLen), n \in 0..MaxLen :
           InitListConstructThrows(l, S, n)
    \/ \E l \in Lists, other \in Lists, n \in 0..MaxLive :
           CopyConstructThrows(l, other, n)
    \/ \E l \in Lists, rhs \in Lists, n \in 0..MaxLive :
           CopyAssignThrows(l, rhs, n)
    \/ \E l \in Lists : Unwind(l)

\* the program when allocations may fail, started from lists of up to
\* MaxBuilt nodes
InitFail == Built(MaxBuilt)
SpecFail == InitFail /\ [][NextFail]_vars

\* the relational operators applied to every pair of lists that fits the heap
InitCmp == Built(MaxNodes)
NextCmp == \E lhs \in Lists, rhs \in Lists : Compare(lhs, rhs)
SpecCmp == InitCmp /\ [][NextCmp]_vars

\* ---- helpers of the properties ----

\* xs without its i-th element
RemoveAt(xs, i) == [j \in 1..(Len(xs) - 1) |-> IF j < i THEN xs[j] ELSE xs[j + 1]]

\* where position pos stands in list l of memory m: 0 for before_begin(),
\* k for the k-th node
PosIndex(m, l, pos) ==
    IF pos = before_begin(l) THEN 0
    ELSE CHOOSE k \in 1..Len(Chain(m, l)) : Chain(m, l)[k] = pos

\* nothing follows position pos in memory m
NothingAfter(m, pos) == pos = NULL \/ NodeNext(m, pos) = NULL

Did(name) == last.op = name /\ last.out = "ok"

\* ---- C1 ----
\* C1: in every state reached through the public operations, each live list's
\* size counter equals the number of nodes reachable from its sentinel, and
\* the counter is 0 exactly when head_.next_node is absent.
C1_SizeCountsNodes ==
    Running =>
        \A l \in Lists : live[l] =>
            /\ GetSize(Cur, l) = Len(Chain(Cur, l))
            /\ (GetSize(Cur, l) = 0 <=> head[l] = NULL)

\* ---- C2 ----
\* C2: the list constructed from the initializer list S iterates to exactly S,
\* in order, and its GetSize() is the length of S.
C2_InitListKeepsOrder ==
    Did("ilist") =>
        /\ Elements(Cur, last.l) = last.vals
        /\ GetSize(Cur, last.l) = Len(last.vals)

\* ---- C3 ----
\* C3: after copy-construction from b, and after a = b with a and b distinct,
\* the target iterates to the same values as b, has b's size, and compares
\* equal to b both ways round.
C3_CopyEqualsSource ==
    ((Did("copy") \/ Did("assign")) /\ last.l # last.r) =>
        /\ Elements(Cur, last.l) = Elements(Cur, last.r)
        /\ GetSize(Cur, last.l) = GetSize(Cur, last.r)
        /\ OpEq(Cur, last.l, last.r) = "true"
        /\ OpEq(Cur, last.r, last.l) = "true"

\* ---- C4 ----
\* C4: operator== returns true exactly when the two lists have the same
\* number of elements and pairwise equal elements in order (so it is false
\* whenever the lengths differ, and it is symmetric).
C4_EqualityIsElementwise ==
    rel.lhs # 0 =>
        /\ rel.eq = Bool(Elements(Cur, rel.lhs) = Elements(Cur, rel.rhs))
        /\ OpEq(Cur, rel.rhs, rel.lhs) = rel.eq

\* ---- C5 ----
\* C5: evaluating lhs == rhs and lhs != rhs never dereferences or advances
\* an iterator that holds no node, whatever the two lengths are.
C5_EqualityStaysInBounds ==
    rel.lhs # 0 => (rel.eq \notin Faults /\ rel.ne \notin Faults)

\* ---- C6 ----
\* C6: for every pair of lists exactly one of a < b, a == b, a > b is true,
\* a <= b iff (a < b or a == b), and a >= b iff (a > b or a == b).
C6_Trichotomy ==
    rel.lhs # 0 =>
        /\ Cardinality({o \in {"lt", "eq", "gt"} : rel[o] = "true"}) = 1
        /\ (rel.le = "true") <=> (rel.lt = "true" \/ rel.eq = "true")
        /\ (rel.ge = "true") <=> (rel.gt = "true" \/ rel.eq = "true")

\* ---- C7 ----
\* C7: PopFront() on a list whose head_.next_node is absent is a safe no-op
\* (no fault, no deallocation, chain and size unchanged); on a list with a
\* first node it does what EraseAfter(before_begin()) does.
C7_PopFrontSafe ==
    last.op = "PopFront" =>
        IF last.pre.head[last.l] = NULL
        THEN /\ last.out = "ok"
             /\ alloc = last.pre.alloc
             /\ head = last.pre.head
             /\ size = last.pre.size
        ELSE LET m == EraseAfterM(last.pre, last.l, before_begin(last.l))
             IN /\ last.out = "ok"
                /\ head = m.head /\ size = m.size /\ alloc = m.alloc
                /\ value = m.value /\ next = m.next

\* ---- C8 ----
\* C8: after Clear() the list has no node, GetSize() is 0 and IsEmpty() is
\* true, whatever state the list was in; Clear() on an empty list changes
\* nothing.
C8_ClearEmpties ==
    Did("Clear") =>
        /\ head[last.l] = NULL
        /\ GetSize(Cur, last.l) = 0
        /\ IsEmpty(Cur, last.l)
        /\ (last.pre.head[last.l] = NULL /\ last.pre.size[last.l] = 0) =>
               (head = last.pre.head /\ size = last.pre.size
                /\ alloc = last.pre.alloc)

\* ---- C9 ----
\* C9: in a checked build, EraseAfter(pos) with no node following pos (pos at
\* the last node, or before_begin() of an empty list), and InsertAfter and
\* EraseAfter at the end position, fail an assertion.
C9_ChecksPosition ==
    checked =>
        /\ (last.op = "EraseAfter" /\ NothingAfter(last.pre, last.pos)) =>
               last.out = "assert"
        /\ (last.op = "InsertAfter" /\ last.pos = end) => last.out = "assert"

\* ---- C10 ----
\* C10: on a list holding x_1..x_n, EraseAfter(pos) with pos at the sentinel
\* (k = 0) or at x_k, k < n, succeeds and leaves x_1..x_k, x_(k+2)..x_n on
\* the same nodes in the same order, makes size one less, deallocates exactly
\* the node of x_(k+1), and returns the position of x_(k+2), or end() when
\* k + 1 = n.
C10_EraseAfterRemovesOne ==
    (last.op = "EraseAfter" /\ ~NothingAfter(last.pre, last.pos)) =>
        LET l == last.l
            xs == Elements(last.pre, l)
            nodes == Chain(last.pre, l)
            k == PosIndex(last.pre, l, last.pos)
        IN /\ last.out = "ok"
           /\ Elements(Cur, l) = RemoveAt(xs, k + 1)
           /\ Chain(Cur, l) = RemoveAt(nodes, k + 1)
           /\ GetSize(Cur, l) = last.pre.size[l] - 1
           /\ alloc = last.pre.alloc \ {nodes[k + 1]}
           /\ Cardinality(alloc) = Cardinality(last.pre.alloc) - 1
           /\ ret = IF k + 1 = Len(xs) THEN end ELSE nodes[k + 2]
           /\ \A o \in Lists \ {l} :
                  Chain(Cur, o) = Chain(last.pre, o)
                  /\ Elements(Cur, o) = Elements(last.pre, o)

\* the first of two different values was erased through before_begin() and
\* the position of the second was returned
C10_Witness ==
    /\ Did("EraseAfter")
    /\ last.pos = before_begin(last.l)
    /\ Len(Chain(last.pre, last.l)) = 2
    /\ Elements(last.pre, last.l)[1] # Elements(last.pre, last.l)[2]
    /\ ret # end /\ head[last.l] = ret

\* the last operation ended with std::bad_alloc
Threw(name) == last.op = name /\ last.out = "bad_alloc"

\* list l holds the same nodes in the same order with the same values and
\* the same size_ as before the last operation
SameList(l) ==
    /\ head[l] = last.pre.head[l]
    /\ size[l] = last.pre.size[l]
    /\ Chain(Cur, l) = Chain(last.pre, l)
    /\ Elements(Cur, l) = Elements(last.pre, l)

\* every node allocated before the last operation is still allocated and
\* holds the same value and the same link
SameNodes ==
    \A a \in last.pre.alloc :
        a \in alloc /\ value[a] = last.pre.value[a] /\ next[a] = last.pre.next[a]

\* C11: when an allocation fails during the copy made by a = b, a has the
\* nodes, values, order and size it had before the assignment, and so has b
C11_AssignFailureKeepsBoth ==
    Threw("assign") => SameList(last.l) /\ SameList(last.r) /\ SameNodes

\* a = b failed after a node of the copy had been allocated, with a holding
\* one element and b two
C11_Witness ==
    /\ Threw("assign")
    /\ Len(Chain(last.pre, last.l)) = 1
    /\ Len(Chain(last.pre, last.r)) = 2
    /\ Cardinality(alloc) > Cardinality(last.pre.alloc)
    /\ SameList(last.l)

\* the nodes of list l in memory m
ChainNodes(m, l) == {Chain(m, l)[i] : i \in 1..Len(Chain(m, l))}

\* the operations that change the elements of the list they are called on
Mutations == {"PushFront", "PopFront", "InsertAfter", "EraseAfter", "Clear"}

\* C12: a list made by copy-construction or copy-assignment shares no node
\* with its source, the copy leaves the source as it was, and PushFront,
\* PopFront, InsertAfter, EraseAfter and Clear on one list leave the nodes,
\* elements and size of every other list as they were
C12_CopyIsIndependent ==
    /\ \A l \in Lists, r \in Lists :
          (l # r /\ live[l] /\ live[r])
              => ChainNodes(Cur, l) \cap ChainNodes(Cur, r) = {}
    /\ (last.op \in {"copy", "assign"} /\ last.l # last.r)
          => SameList(last.r)
    /\ last.op \in Mutations
          => \A r \in Lists \ {last.l} : live[r] => SameList(r)

\* a list that had been given the size of the other, non-empty list and no
\* node of it (what copying that list leaves) has had an element pushed,
\* and the other list still holds its element
C12_Witness ==
    /\ Did("PushFront")
    /\ \E r \in Lists \ {last.l} :
          /\ live[r]
          /\ Len(Chain(Cur, r)) = 1
          /\ last.pre.size[last.l] = size[r]
          /\ ChainNodes(last.pre, last.l) = {}
          /\ Elements(Cur, last.l) # Elements(Cur, r)
          /\ SameList(r)

\* C13: a.swap(b) and swap(a, b) leave a with the chain and size b had and
\* b with those a had, allocate and free no node, leave every node's value
\* and link as they were, and a second swap restores the state
C13_SwapExchanges ==
    Did("swap") =>
        /\ head[last.l] = last.pre.head[last.r]
        /\ head[last.r] = last.pre.head[last.l]
        /\ size[last.l] = last.pre.size[last.r]
        /\ size[last.r] = last.pre.size[last.l]
        /\ Chain(Cur, last.l) = Chain(last.pre, last.r)
        /\ Chain(Cur, last.r) = Chain(last.pre, last.l)
        /\ Elements(Cur, last.l) = Elements(last.pre, last.r)
        /\ Elements(Cur, last.r) = Elements(last.pre, last.l)
        /\ \A o \in Lists \ {last.l, last.r} : SameList(o)
        /\ alloc = last.pre.alloc
        /\ value = last.pre.value
        /\ next = last.pre.next
        /\ swapM(Cur, last.l, last.r).head = last.pre.head
        /\ swapM(Cur, last.l, last.r).size = last.pre.size

\* two different lists were swapped, one holding an element and the other
\* none
C13_Witness ==
    /\ Did("swap")
    /\ last.l # last.r
    /\ Len(Chain(last.pre, last.l)) = 1
    /\ Len(Chain(last.pre, last.r)) = 0
    /\ last.pre.size[last.l] # last.pre.size[last.r]
    /\ Len(Chain(Cur, last.r)) = 1

\* xs precedes ys lexicographically: after a common prefix of k elements
\* either xs has ended and ys has not, or the next element of xs is the
\* smaller one
LexLess(xs, ys) ==
    \E k \in 0..Len(xs) :
        /\ k <= Len(ys)
        /\ \A i \in 1..k : xs[i] = ys[i]
        /\ \/ k = Len(xs) /\ k < Len(ys)
           \/ k < Len(xs) /\ k < Len(ys) /\ xs[k + 1] < ys[k + 1]

\* C14: lhs < rhs is true exactly when the elements of lhs precede those of
\* rhs lexicographically (the first difference decides, a proper prefix is
\* the smaller), and lhs > rhs is rhs < lhs
C14_LessIsLexicographic ==
    rel.lhs # 0 =>
        /\ rel.lt = Bool(LexLess(Elements(Cur, rel.lhs), Elements(Cur, rel.rhs)))
        /\ rel.gt = Bool(LexLess(Elements(Cur, rel.rhs), Elements(Cur, rel.lhs)))
        /\ rel.gt = OpLt(Cur, rel.rhs, rel.lhs)

\* {1,2} has been compared with {1,2,1}, of which it is a proper prefix
C14_Witness ==
    /\ rel.lhs # 0
    /\ Elements(Cur, rel.lhs) = <<1, 2>>
    /\ Elements(Cur, rel.rhs) = <<1, 2, 1>>
    /\ rel.lt = "true"
    /\ rel.gt = "false"

\* C15: a = a leaves a with the same nodes, elements and size, and
\* allocates and frees no node
C15_SelfAssignKeeps ==
    (Did("assign") /\ last.l = last.r) =>
        /\ SameList(last.l)
        /\ head = last.pre.head
        /\ size = last.pre.size
        /\ alloc = last.pre.alloc
        /\ value = last.pre.value
        /\ next = last.pre.next

\* a list of two different elements has been assigned to itself
C15_Witness ==
    /\ Did("assign")
    /\ last.l = last.r
    /\ Elements(last.pre, last.l) = <<1, 2>>
    /\ Elements(Cur, last.l) = <<1, 2>>
    /\ size[last.l] = 2

\* the memory the last operation started from
PreMemory ==
    [head |-> last.pre.head, size |-> last.pre.size, alloc |-> last.pre.alloc,
     value |-> last.pre.value, next |-> last.pre.next, fault |-> "none",
     exc |-> FALSE, ret |-> NULL, budget |-> 0 - 1]

\* list l of memory m has the elements and the size list l has now
SameResult(m, l) ==
    /\ m.fault = "none" /\ ~m.exc
    /\ Elements(m, l) = Elements(Cur, l)
    /\ m.size[l] = size[l]

\* list l holds v followed by the elements it held, and its size is one more
Prepended(l, v) ==
    /\ Elements(Cur, l) = <<v>> \o Elements(last.pre, l)
    /\ size[l] = last.pre.size[l] + 1

\* C16: InsertAfter(before_begin(), v) and PushFront(v) give the same
\* elements (v, then the previous ones) and the same size (one more), and
\* InsertAfter returns begin() of the resulting list
C16_InsertAtFrontIsPushFront ==
    /\ Did("PushFront") =>
          /\ Prepended(last.l, last.v)
          /\ SameResult(InsertAfterM(PreMemory, last.l, before_begin(last.l),
                                     last.v), last.l)
    /\ (Did("InsertAfter") /\ last.pos = before_begin(last.l)) =>
          /\ Prepended(last.l, last.v)
          /\ SameResult(PushFrontM(PreMemory, last.l, last.v), last.l)
          /\ ret = begin(Cur, last.l)
          /\ ret # end

\* 2 has been inserted after before_begin() of a list holding 1
C16_Witness ==
    /\ Did("InsertAfter")
    /\ last.pos = before_begin(last.l)
    /\ last.v = 2
    /\ Elements(last.pre, last.l) = <<1>>
    /\ Elements(Cur, last.l) = <<2, 1>>
    /\ size[last.l] = 2
    /\ ret = head[last.l]

\* node a, allocated before the last operation, is still allocated, holds
\* the same value and is in list l if it was
StillValid(a, l) ==
    /\ a \in alloc
    /\ value[a] = last.pre.value[a]
    /\ a \in ChainNodes(last.pre, l) => a \in ChainNodes(Cur, l)

\* C17: InsertAfter leaves every node that existed allocated, in the list
\* and with its value, changing only the link of pos; EraseAfter and
\* PopFront on a non-empty list free exactly one node of the list and leave
\* every other node allocated, in the list and with its value
C17_IteratorsStayValid ==
    /\ Did("InsertAfter") =>
          /\ \A a \in last.pre.alloc :
                /\ StillValid(a, last.l)
                /\ a # last.pos => next[a] = last.pre.next[a]
          /\ alloc = last.pre.alloc \cup {ret}
          /\ \A o \in Lists :
                Sentinel(o) # last.pos => head[o] = last.pre.head[o]
    /\ (Did("EraseAfter") \/ (Did("PopFront") /\ last.pre.size[last.l] # 0)) =>
          \E d \in ChainNodes(last.pre, last.l) :
              /\ alloc = last.pre.alloc \ {d}
              /\ \A a \in last.pre.alloc \ {d} : StillValid(a, last.l)
    /\ (Did("PopFront") /\ last.pre.size[last.l] = 0) =>
          alloc = last.pre.alloc /\ SameNodes

\* 1 has been inserted after the first node, holding 2, of a list: the node
\* still holds 2 and is followed by the new node
C17_Witness ==
    /\ Did("InsertAfter")
    /\ last.pos > 0
    /\ last.v = 1
    /\ last.pre.value[last.pos] = 2
    /\ value[last.pos] = 2
    /\ next[last.pos] = ret
    /\ Elements(Cur, last.l) = <<2, 1>>

\* the chain of list l visits allocated nodes, none of them twice, and ends
\* in an absent link
WellFormedChain(l) ==
    /\ Len(Chain(Cur, l)) <= MaxNodes
    /\ Cardinality(ChainNodes(Cur, l)) = Len(Chain(Cur, l))
    /\ ChainNodes(Cur, l) \subseteq alloc
    /\ Chain(Cur, l) # <<>> => next[Chain(Cur, l)[Len(Chain(Cur, l))]] = NULL

\* C18: every allocated node is reachable from at most one list, every
\* chain is acyclic and ends in an absent link, and Clear() and the
\* destructor free the nodes of the list, each of them once, and no other
C18_ChainsAreExclusive ==
    /\ \A l \in Lists : live[l] => WellFormedChain(l)
    /\ \A a \in alloc :
          Cardinality({l \in Lists : live[l] /\ a \in ChainNodes(Cur, l)}) <= 1
    /\ (Did("Clear") \/ Did("destroy")) =>
          /\ Chain(Cur, last.l) = <<>>
          /\ ChainNodes(last.pre, last.l) \subseteq last.pre.alloc
          /\ Cardinality(ChainNodes(last.pre, last.l))
                 = Len(Chain(last.pre, last.l))
          /\ alloc = last.pre.alloc \ ChainNodes(last.pre, last.l)
          /\ \A a \in alloc :
                value[a] = last.pre.value[a] /\ next[a] = last.pre.next[a]

\* Clear() has freed the two nodes of a list
C18_Witness ==
    /\ Did("Clear")
    /\ Len(Chain(last.pre, last.l)) = 2
    /\ Cardinality(last.pre.alloc) = 2
    /\ alloc = {}
    /\ head[last.l] = NULL

\* C19: in a build with assertions, operator* and operator-> on an iterator
\* equal to end() or to before_begin(), and operator++ on an iterator equal
\* to end(), fail an assertion
C19_ChecksIterators ==
    /\ (checked /\ last.op = "deref" /\ (last.pos = end \/ last.pos < 0))
          => last.out = "assert"
    /\ (checked /\ last.op = "advance" /\ last.pos = end)
          => last.out = "assert"

\* C20: every allocated node is reachable from exactly one live list, and
\* none is left once every list is destroyed, also after an allocation
\* failed during initializer-list construction, copy-construction or
\* copy-assignment
C20_NoLeak ==
    /\ \A a \in alloc :
          Cardinality({l \in Lists : live[l] /\ a \in ChainNodes(Cur, l)}) = 1
    /\ (\A l \in Lists : ~live[l]) => alloc = {}

====
